---- MODULE Spec2Model ----
(***************************************************************************)
(* Model of the survey QC pipeline of src/Main.py: cleanse_series,         *)
(* cleanse_df and build_qc_output.                                         *)
(*                                                                         *)
(* Text is a sequence of one-character strings, so that strip, whitespace  *)
(* collapse and upper-casing are computed character by character.  A cell  *)
(* is a record [kind, s]: kind "na" is the missing marker (NaN/None),      *)
(* kind "str" a Python str with characters s, kind "num" a number whose    *)
(* str() is s.  A table (DataFrame) is [cols, rows]: the column names in   *)
(* order and the rows as sequences of cells aligned with cols.  Column     *)
(* dtypes are not modelled: a column is the sequence of its cells.         *)
(***************************************************************************)
EXTENDS Integers, Sequences, FiniteSets, TLC

\* ------------------------------------------------------------ bounds
MaxLen == 4
MaxCol == 2
MaxResp == 2
MaxRecon == 2
MaxNum == 2

\* ------------------------------------------------------------ text
Range(f) == {f[i] : i \in DOMAIN f}

SeqsUpTo(S, n) == UNION {[1..k -> S] : k \in 0..n}

\* Characters str.isspace() and the regex class \s both accept.
Whitespace == {" ", "\t", "\n"}

LowerCase == <<"a","b","c","d","e","f","g","h","i","j","k","l","m",
               "n","o","p","q","r","s","t","u","v","w","x","y","z">>
UpperCase == <<"A","B","C","D","E","F","G","H","I","J","K","L","M",
               "N","O","P","Q","R","S","T","U","V","W","X","Y","Z">>

\* str.upper() on one character.
UpperChar(c) ==
    IF \E i \in DOMAIN LowerCase : LowerCase[i] = c
    THEN UpperCase[CHOOSE i \in DOMAIN LowerCase : LowerCase[i] = c]
    ELSE c

\* str.upper()
StrUpper(x) == [i \in DOMAIN x |-> UpperChar(x[i])]

RECURSIVE LStrip(_)
LStrip(x) ==
    IF x # <<>> /\ Head(x) \in Whitespace THEN LStrip(Tail(x)) ELSE x

RECURSIVE RStrip(_)
RStrip(x) ==
    IF x # <<>> /\ x[Len(x)] \in Whitespace
    THEN RStrip(SubSeq(x, 1, Len(x) - 1))
    ELSE x

\* A plausible slip: strip(" ") removes blanks only, not every whitespace.
RECURSIVE LStripBlank(_)
LStripBlank(x) ==
    IF x # <<>> /\ Head(x) = " " THEN LStripBlank(Tail(x)) ELSE x

RECURSIVE RStripBlank(_)
RStripBlank(x) ==
    IF x # <<>> /\ x[Len(x)] = " "
    THEN RStripBlank(SubSeq(x, 1, Len(x) - 1))
    ELSE x

StrStripBlankOnly(x) == RStripBlank(LStripBlank(x))

\* str.strip(): leading and trailing whitespace removed.
StrStrip(x) == RStrip(LStrip(x))

\* re.sub(r"\s+", " ", x): every maximal whitespace run becomes one blank.
RECURSIVE CollapseWhitespace(_)
CollapseWhitespace(x) ==
    IF x = <<>> THEN <<>>
    ELSE IF Head(x) \in Whitespace
         THEN <<" ">> \o CollapseWhitespace(LStrip(Tail(x)))
         ELSE <<Head(x)>> \o CollapseWhitespace(Tail(x))

\* ------------------------------------------------------------ cells
NA == [kind |-> "na", s |-> <<>>]
Str(x) == [kind |-> "str", s |-> x]
Num(x) == [kind |-> "num", s |-> x]

\* Series.notna() on one cell.
NotNa(c) == c.kind # "na"

\* astype(str) on one cell: str(None) is "None", str(nan) is "nan".
AsStr(c) == IF c.kind = "na" THEN Str(<<"n","a","n">>) ELSE Str(c.s)

\* ------------------------------------------------------------ cleanse_series
\* A slip the docstring warns of: the whole column is cast to str, so the
\* missing marker becomes the text "nan" and is cleansed like any other.
cleanse_series_cast_all(s, upper) ==
    [i \in DOMAIN s |->
        LET t == CollapseWhitespace(StrStrip(AsStr(s[i]).s))
        IN  Str(IF upper THEN StrUpper(t) ELSE t)]

\* A slip: .str.strip(" ") in line 21.
cleanse_series_strip_blank(s, upper) ==
    [i \in DOMAIN s |->
        IF NotNa(s[i])
        THEN LET t == CollapseWhitespace(StrStripBlankOnly(AsStr(s[i]).s))
             IN  Str(IF upper THEN StrUpper(t) ELSE t)
        ELSE s[i]]

cleanse_series(s, upper) ==
    LET mask == [i \in DOMAIN s |-> NotNa(s[i])]
        out21 == [i \in DOMAIN s |->
                    IF mask[i] THEN Str(StrStrip(AsStr(s[i]).s)) ELSE s[i]]
        out22 == [i \in DOMAIN s |->
                    IF mask[i] THEN Str(CollapseWhitespace(out21[i].s))
                    ELSE out21[i]]
        out24 == [i \in DOMAIN s |->
                    IF mask[i] THEN Str(StrUpper(out22[i].s)) ELSE out22[i]]
    IN  IF upper THEN out24 ELSE out22

\* ------------------------------------------------------------ column names
\* "Respondent"
Respondent == <<"R","e","s","p","o","n","d","e","n","t">>

\* "End time (GMT)"
EndTimeGMT == <<"E","n","d"," ","t","i","m","e"," ","(","G","M","T",")">>

\* "Panel"
Panel == <<"P","a","n","e","l">>

\* "Name"
NameCol == <<"N","a","m","e">>

\* "Value"
ValueCol == <<"V","a","l","u","e">>

\* "Question number"
QuestionNumber == <<"Q","u","e","s","t","i","o","n"," ","n","u","m","b","e","r">>

\* "Section"
Section == <<"S","e","c","t","i","o","n">>

\* "Question Text"
QuestionText == <<"Q","u","e","s","t","i","o","n"," ","T","e","x","t">>

\* "Answer Option"
AnswerOption == <<"A","n","s","w","e","r"," ","O","p","t","i","o","n">>

\* "Loop Variable"
LoopVariable == <<"L","o","o","p"," ","V","a","r","i","a","b","l","e">>

\* "Matrix Dimension"
MatrixDimension == <<"M","a","t","r","i","x"," ","D","i","m","e","n","s","i","o","n">>

\* "Double Loop Var1"
DoubleLoopVar1 == <<"D","o","u","b","l","e"," ","L","o","o","p"," ","V","a","r","1">>

\* "Double Loop Var2"
DoubleLoopVar2 == <<"D","o","u","b","l","e"," ","L","o","o","p"," ","V","a","r","2">>

\* "_recon"
SuffixRecon == <<"_","r","e","c","o","n">>

\* "_num"
SuffixNum == <<"_","n","u","m">>

\* The default of responses_key_fields (line 53).
default_key_fields == <<Respondent, EndTimeGMT, Panel>>

\* A slip: Value cleansed together with the key fields and Name.
long_cols_to_clean_with_value == <<Respondent, Panel, NameCol, ValueCol>>

\* The columns cleansed after the transpose (line 70).
long_cols_to_clean == <<Respondent, Panel, NameCol>>

\* recon_cols_to_clean (lines 74-84).
recon_cols_to_clean ==
    <<NameCol, QuestionNumber, Section, QuestionText, AnswerOption,
      LoopVariable, MatrixDimension, DoubleLoopVar1, DoubleLoopVar2>>

\* ------------------------------------------------------------ tables
Table(cols, rows) == [cols |-> cols, rows |-> rows]

HasCol(t, c) == c \in Range(t.cols)

\* Position of column c in table t.
Idx(t, c) == CHOOSE k \in DOMAIN t.cols : t.cols[k] = c

\* df[c]: the column as a sequence of cells.
Column(t, c) == [i \in DOMAIN t.rows |-> t.rows[i][Idx(t, c)]]

\* df[c] = col
SetColumn(t, c, col) ==
    [t EXCEPT !.rows =
        [i \in DOMAIN t.rows |-> [t.rows[i] EXCEPT ![Idx(t, c)] = col[i]]]]

\* The cells of row r at the positions ks, in that order.
Project(r, ks) == [k \in DOMAIN ks |-> r[ks[k]]]

\* The positions of t's columns whose name is not in names, in column order.
PositionsNotIn(t, names) ==
    SelectSeq([k \in DOMAIN t.cols |-> k], LAMBDA k : t.cols[k] \notin names)

\* The loop of cleanse_df (lines 30-32) from the k-th name of cols on.
RECURSIVE CleanseCols(_, _, _, _)
CleanseCols(t, cols, k, upper) ==
    IF k > Len(cols) THEN t
    ELSE IF HasCol(t, cols[k])
         THEN CleanseCols(
                 SetColumn(t, cols[k], cleanse_series(Column(t, cols[k]), upper)),
                 cols, k + 1, upper)
         ELSE CleanseCols(t, cols, k + 1, upper)

\* A slip: cleanse_df without its df.copy(); the caller's table is written.
cleanse_df_in_place(h, df, cols, upper) ==
    [heap |-> [h EXCEPT ![df] = CleanseCols(h[df], cols, 1, upper)],
     ref  |-> df]

\* cleanse_df on the heap h of tables: the copy is a new object, the
\* column assignments write into the copy.
cleanse_df(h, df, cols, upper) ==
    [heap |-> Append(h, CleanseCols(h[df], cols, 1, upper)),
     ref  |-> Len(h) + 1]

\* DataFrame.drop(columns=[c for c in names if c in df.columns])
drop(t, names) ==
    LET ks == PositionsNotIn(t, Range(names))
    IN  Table(Project(t.cols, ks),
              [i \in DOMAIN t.rows |-> Project(t.rows[i], ks)])

\* keys (line 56) and data_cols (line 57)
present_keys(t, key_fields) == SelectSeq(key_fields, LAMBDA c : HasCol(t, c))

data_columns(t, ks) == SelectSeq(t.cols, LAMBDA c : c \notin Range(ks))

\* A slip: melt that leaves the first value column out.
melt_skip_first(t, id_vars, value_vars) ==
    LET R == Len(t.rows)
        vv == IF value_vars = <<>> THEN <<>> ELSE Tail(value_vars)
        ids == [k \in DOMAIN id_vars |-> Idx(t, id_vars[k])]
    IN  Table(id_vars \o <<NameCol, ValueCol>>,
              [n \in 1..(R * Len(vv)) |->
                  LET v == vv[((n - 1) \div R) + 1]
                      r == t.rows[((n - 1) % R) + 1]
                  IN  Project(r, ids) \o <<Str(v), r[Idx(t, v)]>>])

\* DataFrame.melt(id_vars, value_vars, var_name="Name", value_name="Value"):
\* value column by value column, each over all rows in order.
melt(t, id_vars, value_vars) ==
    LET R == Len(t.rows)
        ids == [k \in DOMAIN id_vars |-> Idx(t, id_vars[k])]
    IN  Table(id_vars \o <<NameCol, ValueCol>>,
              [n \in 1..(R * Len(value_vars)) |->
                  LET v == value_vars[((n - 1) \div R) + 1]
                      r == t.rows[((n - 1) % R) + 1]
                  IN  Project(r, ids) \o <<Str(v), r[Idx(t, v)]>>])

\* long_df[long_df["Value"].notna()]
filter_value_notna(t) ==
    Table(t.cols, SelectSeq(t.rows, LAMBDA r : NotNa(r[Idx(t, ValueCol)])))

\* The column names of left.merge(right, on=on, suffixes=(lsuf, rsuf)):
\* a name both sides carry, other than the key, takes its side's suffix.
MergeLeftCols(left, right, on, lsuf) ==
    [k \in DOMAIN left.cols |->
        IF left.cols[k] # on /\ HasCol(right, left.cols[k])
        THEN left.cols[k] \o lsuf ELSE left.cols[k]]

MergeRightCols(left, right, on, rsuf) ==
    LET ks == PositionsNotIn(right, {on})
    IN  [k \in DOMAIN ks |->
            IF HasCol(left, right.cols[ks[k]])
            THEN right.cols[ks[k]] \o rsuf ELSE right.cols[ks[k]]]

\* A slip: a left row without a match yields no row, whatever how is.
MergeRowsOf_drop_unmatched(l, left, right, on, how) ==
    LET ks == PositionsNotIn(right, {on})
        ms == SelectSeq(right.rows,
                        LAMBDA r : r[Idx(right, on)] = l[Idx(left, on)])
    IN  [m \in DOMAIN ms |-> l \o Project(ms[m], ks)]

\* The rows left row l yields: one per right row with an equal key; with
\* how="left" a row without a match is kept, its right-hand cells missing.
MergeRowsOf(l, left, right, on, how) ==
    LET ks == PositionsNotIn(right, {on})
        ms == SelectSeq(right.rows,
                        LAMBDA r : r[Idx(right, on)] = l[Idx(left, on)])
    IN  IF ms = <<>> /\ how = "left"
        THEN << l \o [k \in DOMAIN ks |-> NA] >>
        ELSE [m \in DOMAIN ms |-> l \o Project(ms[m], ks)]

RECURSIVE MergeRows(_, _, _, _, _)
MergeRows(i, left, right, on, how) ==
    IF i > Len(left.rows) THEN <<>>
    ELSE MergeRowsOf(left.rows[i], left, right, on, how)
         \o MergeRows(i + 1, left, right, on, how)

\* A slip: how="inner" where the left join is meant (unmatched rows go).
merge_always_inner(left, right, on, how, lsuf, rsuf) ==
    Table(MergeLeftCols(left, right, on, lsuf)
            \o MergeRightCols(left, right, on, rsuf),
          MergeRows(1, left, right, on, "inner"))

\* A slip: how="left" where the inner join is meant (unmatched rows stay).
merge_always_left(left, right, on, how, lsuf, rsuf) ==
    Table(MergeLeftCols(left, right, on, lsuf)
            \o MergeRightCols(left, right, on, rsuf),
          MergeRows(1, left, right, on, "left"))

\* A slip: the suffixes swapped, so the left column is the one renamed.
merge_suffix_swapped(left, right, on, how, lsuf, rsuf) ==
    Table(MergeLeftCols(left, right, on, rsuf)
            \o MergeRightCols(left, right, on, lsuf),
          MergeRows(1, left, right, on, how))

\* DataFrame.merge(right, on=on, how=how, suffixes=(lsuf, rsuf))
merge(left, right, on, how, lsuf, rsuf) ==
    Table(MergeLeftCols(left, right, on, lsuf)
            \o MergeRightCols(left, right, on, rsuf),
          MergeRows(1, left, right, on, how))

\* ------------------------------------------------------------ inputs
\* Column names and cell texts the enumerated uploads are made of.
Status == <<"S","t","a","t","u","s">>
TermReason == <<"T","e","r","m"," ","r","e","a","s","o","n">>
Q1 == <<"q","1">>
Q9 == <<"Q","9">>
Code == <<"C","o","d","e">>

\* A wide response table: a key field with a trailing blank, a column of
\* the drop list, a question the metadata knows and one it does not.
RespCols == <<Respondent, Status, Q1, Q9>>

\* The respondents: no answer at all, one answer, two answers.
RespRows ==
    { <<Str(<<"r","1"," ">>), Str(<<"o","k">>), NA, NA>>,
      <<Str(<<"r","1"," ">>), Str(<<"o","k">>), Str(<<" ","y","e","s"," ">>), NA>>,
      <<Str(<<"r","2">>), Str(<<"o","k">>), Str(<<"N","o">>), Str(<<"x"," "," ","y">>)>> }

RespTables ==
    {Table(RespCols, rows) : rows \in SeqsUpTo(RespRows, MaxResp)}
        \cup {Table(<<>>, <<>>)}

\* Metadata tables: Name written in two ways that cleanse to the same
\* text; a layout whose columns collide with the long form's; no columns.
ReconRows == { <<Str(<<"Q","1">>), Str(<<"a">>)>>, <<Str(<<" ","q","1"," ">>), Str(<<"b">>)>> }

ReconCollidingCols == <<Section, NameCol, ValueCol, Respondent>>

ReconCollidingRow == <<Str(<<"a">>), Str(<<"q","1">>), Str(<<"v"," ">>), Str(<<"x">>)>>

ReconTables ==
    {Table(<<NameCol, Section>>, rows) : rows \in SeqsUpTo(ReconRows, MaxRecon)}
        \cup {Table(ReconCollidingCols, rows) :
                rows \in {<<>>, <<ReconCollidingRow>>}}
        \cup {Table(<<>>, <<>>)}

\* Numeric tables: two spellings that differ as written and agree once
\* cleansed; a layout with a Name column of its own; no columns.
NumRows ==
    { <<Str(<<"Y","E","S">>), Num(<<"1">>)>>, <<Str(<<"y","e","s"," ">>), Num(<<"2">>)>> }

NumTables ==
    {Table(<<ValueCol, Code>>, rows) : rows \in SeqsUpTo(NumRows, MaxNum)}
        \cup {Table(<<Code, ValueCol, NameCol>>, rows) :
                rows \in {<<>>, << <<Num(<<"1">>), Str(<<"Y","e","s">>), Str(<<"x">>)>> >>}}
        \cup {Table(<<>>, <<>>)}

\* drop_from_responses: None or empty, or the names of the text area.
DropLists == { <<>>, <<Status, TermReason>> }

\* responses_key_fields: None, or a list of column names (here one the
\* response table does not have).
KeyFieldArgs ==
    { [none |-> TRUE, list |-> <<>>],
      [none |-> FALSE, list |-> <<Panel>>] }

\* ------------------------------------------------------------ state
VARIABLES
    heap,                  \* the DataFrame objects, by identity (position)
    responses_df,          \* the locals of build_qc_output: references
    recon_df,
    numerical_df,
    drop_from_responses,
    responses_key_fields,
    keys,
    data_cols,
    long_df,
    joined,
    out,
    pc,                    \* the line build_qc_output is about to run
    given,                 \* the caller's three tables as passed in
    stage_a,               \* the value of joined as line 88 produced it
    s_in,                  \* cleanse_series called on its own: argument,
    s_upper,               \*   flag,
    s_once,                \*   result,
    s_twice,               \*   result of cleansing the result,
    s_pc

pipeline_vars ==
    <<heap, responses_df, recon_df, numerical_df, drop_from_responses,
      responses_key_fields, keys, data_cols, long_df, joined, out, pc,
      given, stage_a>>

series_vars == <<s_in, s_upper, s_once, s_twice, s_pc>>

vars == <<pipeline_vars, series_vars>>

\* No object yet (an unbound local).
Unbound == 0

InitSeriesIdle ==
    /\ s_in = <<>>
    /\ s_upper = TRUE
    /\ s_once = <<>>
    /\ s_twice = <<>>
    /\ s_pc = "idle"

\* build_qc_output is called with three tables the caller holds.
Init ==
    /\ \E r \in RespTables, m \in ReconTables, n \in NumTables :
          /\ heap = <<r, m, n>>
          /\ given = <<r, m, n>>
    /\ responses_df = 1
    /\ recon_df = 2
    /\ numerical_df = 3
    /\ drop_from_responses \in DropLists
    /\ responses_key_fields \in KeyFieldArgs
    /\ keys = <<>>
    /\ data_cols = <<>>
    /\ long_df = Unbound
    /\ joined = Unbound
    /\ out = Unbound
    /\ stage_a = Table(<<>>, <<>>)
    /\ pc = "L45"
    /\ InitSeriesIdle

\* ------------------------------------------------------------ build_qc_output
\* Line 45: cleanse_df with no columns and upper=False: a copy.
CleansePlaceholder ==
    /\ pc = "L45"
    /\ LET c == cleanse_df(heap, responses_df, <<>>, FALSE)
       IN  /\ heap' = c.heap
           /\ responses_df' = c.ref
    /\ pc' = "L48"
    /\ UNCHANGED <<recon_df, numerical_df, drop_from_responses,
                   responses_key_fields, keys, data_cols, long_df, joined,
                   out, given, stage_a, series_vars>>

\* Lines 48-49: a non-empty drop list yields a new table without the
\* listed columns that are present; None or an empty list skips the step.
DropColumns ==
    /\ pc = "L48"
    /\ \/ /\ drop_from_responses # <<>>
          /\ heap' = Append(heap, drop(heap[responses_df], drop_from_responses))
          /\ responses_df' = Len(heap) + 1
       \/ /\ drop_from_responses = <<>>
          /\ UNCHANGED <<heap, responses_df>>
    /\ pc' = "L52"
    /\ UNCHANGED <<recon_df, numerical_df, drop_from_responses,
                   responses_key_fields, keys, data_cols, long_df, joined,
                   out, given, stage_a, series_vars>>

\* Lines 52-57: the default key fields, then keys and data_cols.
SelectKeys ==
    /\ pc = "L52"
    /\ LET kf == IF responses_key_fields.none
                 THEN [none |-> FALSE, list |-> default_key_fields]
                 ELSE responses_key_fields
           ks == present_keys(heap[responses_df], kf.list)
       IN  /\ responses_key_fields' = kf
           /\ keys' = ks
           /\ data_cols' = data_columns(heap[responses_df], ks)
    /\ pc' = "L59"
    /\ UNCHANGED <<heap, responses_df, recon_df, numerical_df,
                   drop_from_responses, long_df, joined, out, given, stage_a,
                   series_vars>>

\* Lines 59-64: the transpose.
Melt ==
    /\ pc = "L59"
    /\ heap' = Append(heap, melt(heap[responses_df], keys, data_cols))
    /\ long_df' = Len(heap) + 1
    /\ pc' = "L67"
    /\ UNCHANGED <<responses_df, recon_df, numerical_df, drop_from_responses,
                   responses_key_fields, keys, data_cols, joined, out, given,
                   stage_a, series_vars>>

\* Line 67: the rows with a Value, as a copy.
FilterNotNull ==
    /\ pc = "L67"
    /\ heap' = Append(heap, filter_value_notna(heap[long_df]))
    /\ long_df' = Len(heap) + 1
    /\ pc' = "L70"
    /\ UNCHANGED <<responses_df, recon_df, numerical_df, drop_from_responses,
                   responses_key_fields, keys, data_cols, joined, out, given,
                   stage_a, series_vars>>

\* Line 70: cleanse after the transpose.
CleanseLong ==
    /\ pc = "L70"
    /\ LET c == cleanse_df(heap, long_df, long_cols_to_clean, TRUE)
       IN  /\ heap' = c.heap
           /\ long_df' = c.ref
    /\ pc' = "L85"
    /\ UNCHANGED <<responses_df, recon_df, numerical_df, drop_from_responses,
                   responses_key_fields, keys, data_cols, joined, out, given,
                   stage_a, series_vars>>

\* Line 85: cleanse the metadata's text columns.
CleanseRecon ==
    /\ pc = "L85"
    /\ LET c == cleanse_df(heap, recon_df, recon_cols_to_clean, TRUE)
       IN  /\ heap' = c.heap
           /\ recon_df' = c.ref
    /\ pc' = "L88"
    /\ UNCHANGED <<responses_df, numerical_df, drop_from_responses,
                   responses_key_fields, keys, data_cols, long_df, joined,
                   out, given, stage_a, series_vars>>

\* Line 88: the inner join on Name; merge raises KeyError when the
\* metadata has no Name column.
JoinRecon ==
    /\ pc = "L88"
    /\ \/ /\ HasCol(heap[recon_df], NameCol)
          /\ LET j == merge(heap[long_df], heap[recon_df], NameCol, "inner",
                            <<>>, SuffixRecon)
             IN  /\ heap' = Append(heap, j)
                 /\ stage_a' = j
          /\ joined' = Len(heap) + 1
          /\ pc' = "L92"
       \/ /\ ~HasCol(heap[recon_df], NameCol)
          /\ pc' = "KeyError"
          /\ UNCHANGED <<heap, joined, stage_a>>
    /\ UNCHANGED <<responses_df, recon_df, numerical_df, drop_from_responses,
                   responses_key_fields, keys, data_cols, long_df, out, given,
                   series_vars>>

\* Lines 92-94: with a Value column, the numeric table is copied and the
\* copy's Value cleansed; without one the table is left as it is.
CleanseNumerical ==
    /\ pc = "L92"
    /\ \/ /\ HasCol(heap[numerical_df], ValueCol)
          /\ heap' = Append(heap,
                        SetColumn(heap[numerical_df], ValueCol,
                            cleanse_series(Column(heap[numerical_df], ValueCol),
                                           TRUE)))
          /\ numerical_df' = Len(heap) + 1
       \/ /\ ~HasCol(heap[numerical_df], ValueCol)
          /\ UNCHANGED <<heap, numerical_df>>
    /\ pc' = "L97"
    /\ UNCHANGED <<responses_df, recon_df, drop_from_responses,
                   responses_key_fields, keys, data_cols, long_df, joined,
                   out, given, stage_a, series_vars>>

\* Line 97: joined's Value is cleansed in place.
CleanseJoinedValue ==
    /\ pc = "L97"
    /\ heap' = [heap EXCEPT ![joined] =
                   SetColumn(@, ValueCol,
                             cleanse_series(Column(@, ValueCol), TRUE))]
    /\ pc' = "L101"
    /\ UNCHANGED <<responses_df, recon_df, numerical_df, drop_from_responses,
                   responses_key_fields, keys, data_cols, long_df, joined,
                   out, given, stage_a, series_vars>>

\* A slip: an explicit refusal of an empty joined table.
JoinNumerical_raise_on_empty ==
    /\ pc = "L101"
    /\ \/ /\ HasCol(heap[numerical_df], ValueCol)
          /\ heap[joined].rows # <<>>
          /\ heap' = Append(heap,
                        merge(heap[joined], heap[numerical_df], ValueCol,
                              "left", <<>>, SuffixNum))
          /\ out' = Len(heap) + 1
          /\ pc' = "done"
       \/ /\ HasCol(heap[numerical_df], ValueCol)
          /\ heap[joined].rows = <<>>
          /\ pc' = "ValueError"
          /\ UNCHANGED <<heap, out>>
       \/ /\ ~HasCol(heap[numerical_df], ValueCol)
          /\ pc' = "KeyError"
          /\ UNCHANGED <<heap, out>>
    /\ UNCHANGED <<responses_df, recon_df, numerical_df, drop_from_responses,
                   responses_key_fields, keys, data_cols, long_df, joined,
                   given, stage_a, series_vars>>

\* Lines 101-103: the left join on Value and the return; merge raises
\* KeyError when the numeric table has no Value column.
JoinNumerical ==
    /\ pc = "L101"
    /\ \/ /\ HasCol(heap[numerical_df], ValueCol)
          /\ heap' = Append(heap,
                        merge(heap[joined], heap[numerical_df], ValueCol,
                              "left", <<>>, SuffixNum))
          /\ out' = Len(heap) + 1
          /\ pc' = "done"
       \/ /\ ~HasCol(heap[numerical_df], ValueCol)
          /\ pc' = "KeyError"
          /\ UNCHANGED <<heap, out>>
    /\ UNCHANGED <<responses_df, recon_df, numerical_df, drop_from_responses,
                   responses_key_fields, keys, data_cols, long_df, joined,
                   given, stage_a, series_vars>>

Next ==
    \/ CleansePlaceholder
    \/ DropColumns
    \/ SelectKeys
    \/ Melt
    \/ FilterNotNull
    \/ CleanseLong
    \/ CleanseRecon
    \/ JoinRecon
    \/ CleanseNumerical
    \/ CleanseJoinedValue
    \/ JoinNumerical

Spec == Init /\ [][Next]_vars

\* ------------------------------------------------------------ cleanse_series alone
\* The cells cleanse_series is tried on: the missing marker, a number,
\* every text of blanks and letters up to MaxLen, and texts with a tab, a
\* newline, and the words a careless missing-value test would trip on.
SeriesTexts ==
    SeqsUpTo({" ", "a"}, MaxLen)
        \cup { <<"n","a","n">>, <<"n","o","n","e">>, <<"N","a","N">>, <<"\t","a">>, <<"a","\t"," ","b">>, <<"a","\n">> }

SeriesCells ==
    {NA, Num(<<"1">>)} \cup {Str(x) : x \in SeriesTexts}

InitPipelineIdle ==
    /\ heap = <<>>
    /\ given = <<>>
    /\ responses_df = Unbound
    /\ recon_df = Unbound
    /\ numerical_df = Unbound
    /\ drop_from_responses = <<>>
    /\ responses_key_fields = [none |-> TRUE, list |-> <<>>]
    /\ keys = <<>>
    /\ data_cols = <<>>
    /\ long_df = Unbound
    /\ joined = Unbound
    /\ out = Unbound
    /\ stage_a = Table(<<>>, <<>>)
    /\ pc = "idle"

InitSeries ==
    /\ InitPipelineIdle
    /\ s_in \in SeqsUpTo(SeriesCells, MaxCol)
    /\ s_upper \in BOOLEAN
    /\ s_once = <<>>
    /\ s_twice = <<>>
    /\ s_pc = "start"

\* cleanse_series(s, upper)
CleanseOnce ==
    /\ s_pc = "start"
    /\ s_once' = cleanse_series(s_in, s_upper)
    /\ s_pc' = "once"
    /\ UNCHANGED <<pipeline_vars, s_in, s_upper, s_twice>>

\* cleanse_series(cleanse_series(s, upper), upper)
CleanseTwice ==
    /\ s_pc = "once"
    /\ s_twice' = cleanse_series(s_once, s_upper)
    /\ s_pc' = "twice"
    /\ UNCHANGED <<pipeline_vars, s_in, s_upper, s_once>>

NextSeries == CleanseOnce \/ CleanseTwice

SpecSeries == InitSeries /\ [][NextSeries]_vars

\* ------------------------------------------------------------ properties
Missing(c) == c.kind = "na"

\* A text as the Cleanser leaves it: no whitespace at either end, every
\* whitespace a single blank between two other characters, no lower case.
IsCleansedText(x) ==
    /\ x # <<>> => (x[1] \notin Whitespace /\ x[Len(x)] \notin Whitespace)
    /\ \A k \in DOMAIN x :
          /\ x[k] \in Whitespace => x[k] = " "
          /\ (x[k] \in Whitespace /\ k < Len(x)) => x[k + 1] \notin Whitespace
          /\ x[k] \notin Range(LowerCase)

IsCleansedCell(c) == Missing(c) \/ (c.kind = "str" /\ IsCleansedText(c.s))

NoDuplicates(col) ==
    \A i, j \in DOMAIN col : col[i] = col[j] => i = j

\* C5: cleanse_series returns a column of the same length in which a cell
\* is missing exactly where the argument's cell is missing; a present cell
\* comes back as text.
C5_MissingPreserved ==
    s_pc \in {"once", "twice"} =>
        /\ Len(s_once) = Len(s_in)
        /\ \A i \in DOMAIN s_in :
              /\ Missing(s_once[i]) <=> Missing(s_in[i])
              /\ ~Missing(s_in[i]) => s_once[i].kind = "str"

\* A column with a missing cell beside the text "nan" has been cleansed
\* with upper-casing: the first stays missing, the second becomes "NAN".
C5_Witness ==
    /\ s_pc = "once"
    /\ s_upper
    /\ s_in = <<NA, Str(<<"n","a","n">>)>>
    /\ s_once = <<NA, Str(<<"N","A","N">>)>>

\* C6: cleansing a cleansed column changes nothing, cell for cell, with
\* either case-fold setting.
C6_Idempotent ==
    s_pc = "twice" => s_twice = s_once

\* A text with a leading tab, inner whitespace runs and lower case has
\* been cleansed twice.
C6_Witness ==
    /\ s_pc = "twice"
    /\ \E i \in DOMAIN s_in :
          /\ s_in[i] = Str(<<"a","\t"," ","b">>)
          /\ s_once[i] # s_in[i]
          /\ s_twice[i] = s_once[i]

\* C10: the three tables the caller passed are, at every point of the run
\* and after it returned or raised, cell for cell as they were passed.
C10_InputsUnchanged ==
    pc # "idle" => SubSeq(heap, 1, 3) = given

\* The run has returned after writing cleansed columns into its own copy
\* of the metadata and into joined, both now different from what they
\* were made from.
C10_Witness ==
    /\ pc = "done"
    /\ heap[recon_df] # given[2]
    /\ heap[numerical_df] # given[3]
    /\ heap[joined] # stage_a

\* C1 as stated: the final table has at least as many rows as the Stage-A
\* table, and exactly as many when the numeric table's Value column, as
\* passed in, holds no value twice.
C1_AsStated ==
    pc = "done" =>
        /\ Len(heap[out].rows) >= Len(stage_a.rows)
        /\ NoDuplicates(Column(given[3], ValueCol))
              => Len(heap[out].rows) = Len(stage_a.rows)

\* C1 amended: the final table has at least as many rows as the Stage-A
\* table, and exactly as many when the numeric table's Value column holds
\* no value twice once it is cleansed (as line 94 leaves it).
C1_RowCount ==
    pc = "done" =>
        /\ Len(heap[out].rows) >= Len(stage_a.rows)
        /\ NoDuplicates(Column(heap[numerical_df], ValueCol))
              => Len(heap[out].rows) = Len(stage_a.rows)

\* Two Stage-A rows, one matching a numeric row and one matching none,
\* have met a numeric table without duplicates: two rows come out.
C1_Witness ==
    /\ pc = "done"
    /\ Len(stage_a.rows) = 2
    /\ Len(heap[numerical_df].rows) = 1
    /\ Len(heap[out].rows) = 2
    /\ \E j \in DOMAIN heap[out].rows :
          ~Missing(heap[out].rows[j][Len(heap[out].cols)])
    /\ \E j \in DOMAIN heap[out].rows :
          Missing(heap[out].rows[j][Len(heap[out].cols)])

\* The lines after the Stage-A join has produced joined.
AfterStageA == {"L92", "L97", "L101", "done"}

\* Row a of the Stage-A table and row b agree on every column but Value.
SameButValue(a, b) ==
    \A k \in DOMAIN stage_a.cols : stage_a.cols[k] # ValueCol => a[k] = b[k]

\* The cells of a final row under the Stage-A columns.
StageAPart(r) == SubSeq(r, 1, Len(stage_a.cols))

\* C2: every Stage-A row is in the final table, as often as it is in the
\* Stage-A table: a final row agrees with it on every Stage-A column but
\* Value and holds the Value joined holds for it at line 101.  A row whose
\* Value no numeric row has is there with every numeric column missing.
C2_LeftJoinKeepsRows ==
    pc = "done" =>
        LET J == heap[joined]
            N == heap[numerical_df]
            O == heap[out]
        IN  /\ StageAPart(O.cols) = stage_a.cols
            /\ Len(J.rows) = Len(stage_a.rows)
            /\ \A i \in DOMAIN stage_a.rows :
                  /\ SameButValue(stage_a.rows[i], J.rows[i])
                  /\ Cardinality({j \in DOMAIN O.rows :
                                    StageAPart(O.rows[j]) = J.rows[i]})
                        >= Cardinality({k \in DOMAIN J.rows :
                                          J.rows[k] = J.rows[i]})
                  /\ (\A n \in DOMAIN N.rows :
                         N.rows[n][Idx(N, ValueCol)] # J.rows[i][Idx(J, ValueCol)])
                        => \E j \in DOMAIN O.rows :
                              /\ StageAPart(O.rows[j]) = J.rows[i]
                              /\ \A k \in (Len(J.cols) + 1)..Len(O.cols) :
                                    Missing(O.rows[j][k])

\* A Stage-A row with the answer "No", which the numeric table does not
\* list, is in the final table with its code missing, beside a row that
\* found its code.
C2_Witness ==
    /\ pc = "done"
    /\ HasCol(heap[out], Code)
    /\ \E j \in DOMAIN heap[out].rows :
          /\ heap[out].rows[j][Idx(heap[out], ValueCol)] = Str(<<"N","O">>)
          /\ Missing(heap[out].rows[j][Idx(heap[out], Code)])
    /\ \E j \in DOMAIN heap[out].rows :
          ~Missing(heap[out].rows[j][Idx(heap[out], Code)])

\* The Cleanser on one text with case folding.
CleansedText(x) == StrUpper(CollapseWhitespace(StrStrip(x)))

\* Name of a metadata row as uploaded equals text x once both are cleansed.
InMetadata(x) ==
    /\ HasCol(given[2], NameCol)
    /\ \E m \in DOMAIN given[2].rows :
          LET c == given[2].rows[m][Idx(given[2], NameCol)]
          IN  ~Missing(c) /\ CleansedText(c.s) = CleansedText(x)

\* C3: every Stage-A row's Name equals, after cleansing both, the Name of
\* a metadata row; a long-form row whose Name matches no metadata Name has
\* no row in the Stage-A table.
C3_InnerJoinOnName ==
    pc \in AfterStageA =>
        LET L == heap[long_df]
        IN  /\ \A i \in DOMAIN stage_a.rows :
                  InMetadata(stage_a.rows[i][Idx(stage_a, NameCol)].s)
            /\ \A l \in DOMAIN L.rows :
                  ~InMetadata(L.rows[l][Idx(L, NameCol)].s)
                     => \A i \in DOMAIN stage_a.rows :
                           stage_a.rows[i][Idx(stage_a, NameCol)]
                              # L.rows[l][Idx(L, NameCol)]

\* The long form holds an answer to Q9, which the metadata does not list,
\* and an answer to q1, which it does: Stage A has the second only.
C3_Witness ==
    /\ pc = "L92"
    /\ stage_a.rows # <<>>
    /\ \E l \in DOMAIN heap[long_df].rows :
          heap[long_df].rows[l][Idx(heap[long_df], NameCol)] = Str(Q9)
    /\ \A i \in DOMAIN stage_a.rows :
          stage_a.rows[i][Idx(stage_a, NameCol)] = Str(<<"Q","1">>)

\* The value columns of the response table as uploaded: those neither in
\* the drop list nor among the key fields.
ValueColumns ==
    {c \in Range(given[1].cols) :
        c \notin Range(drop_from_responses)
        /\ c \notin Range(responses_key_fields.list)}

\* The key fields present in the response table, in configured order.
PresentKeyFields ==
    SelectSeq(responses_key_fields.list,
              LAMBDA c : HasCol(given[1], c) /\ c \notin Range(drop_from_responses))

\* The long-form row of the cell of row r under value column c.
LongRowOf(r, c) ==
    [k \in DOMAIN PresentKeyFields |->
        given[1].rows[r][Idx(given[1], PresentKeyFields[k])]]
      \o <<Str(c), given[1].rows[r][Idx(given[1], c)]>>

NonMissingCells ==
    {rc \in (DOMAIN given[1].rows) \X ValueColumns :
        ~Missing(given[1].rows[rc[1]][Idx(given[1], rc[2])])}

\* C4: after the not-null filter the long form has as many rows as the
\* R x V value cells hold non-missing cells; every such cell has its row
\* (key-field values, column name in Name, cell in Value) and every row is
\* the row of such a cell.
C4_ReshapeRowCount ==
    pc = "L70" =>
        LET L == heap[long_df]
        IN  /\ Len(L.rows) = Cardinality(NonMissingCells)
            /\ \A rc \in NonMissingCells :
                  \E n \in DOMAIN L.rows : L.rows[n] = LongRowOf(rc[1], rc[2])
            /\ \A n \in DOMAIN L.rows :
                  \E rc \in NonMissingCells : L.rows[n] = LongRowOf(rc[1], rc[2])

\* Two respondents, Status dropped, Respondent the key: of the 2 x 2 value
\* cells three hold an answer, and the long form has three rows.
C4_Witness ==
    /\ pc = "L70"
    /\ Len(given[1].rows) = 2
    /\ keys = <<Respondent>>
    /\ Cardinality(ValueColumns) = 2
    /\ Cardinality(NonMissingCells) = 3
    /\ Len(heap[long_df].rows) = 3

\* The values pc takes while the run has not raised.
Lines ==
    {"L45", "L48", "L52", "L59", "L67", "L70", "L85", "L88", "L92", "L97",
     "L101", "done"}

AnyTableEmpty == \E t \in 1..3 : given[t].rows = <<>>

\* Stage A ran and matched nothing.
NoNameMatched == joined # Unbound /\ stage_a.rows = <<>>

C8_CollisionSuffixed ==
    pc \in AfterStageA =>
        LET L == heap[long_df]
            M == heap[recon_df]
        IN  \A c \in (Range(M.cols) \cap Range(L.cols)) \ {NameCol} :
               /\ HasCol(stage_a, c)
               /\ HasCol(stage_a, c \o SuffixRecon)
               /\ Idx(stage_a, c) = Idx(L, c)
               /\ \A i \in DOMAIN stage_a.rows :
                     \E l \in DOMAIN L.rows, m \in DOMAIN M.rows :
                        /\ L.rows[l][Idx(L, NameCol)] = M.rows[m][Idx(M, NameCol)]
                        /\ SubSeq(stage_a.rows[i], 1, Len(L.cols)) = L.rows[l]
                        /\ stage_a.rows[i][Idx(stage_a, c \o SuffixRecon)]
                              = M.rows[m][Idx(M, c)]

\* Metadata with columns Value and Respondent of its own: a Stage-A row
\* holds the respondent and the answer as reshaped, and the metadata's
\* cells under Respondent_recon and Value_recon.
C8_Witness ==
    /\ pc = "L92"
    /\ HasCol(heap[long_df], Respondent)
    /\ HasCol(stage_a, ValueCol \o SuffixRecon)
    /\ HasCol(stage_a, Respondent \o SuffixRecon)
    /\ \E i \in DOMAIN stage_a.rows :
          /\ stage_a.rows[i][Idx(stage_a, ValueCol)] = Str(<<" ","y","e","s"," ">>)
          /\ stage_a.rows[i][Idx(stage_a, ValueCol \o SuffixRecon)] = Str(<<"v"," ">>)
          /\ stage_a.rows[i][Idx(stage_a, Respondent)] = Str(<<"R","1">>)
          /\ stage_a.rows[i][Idx(stage_a, Respondent \o SuffixRecon)] = Str(<<"x">>)

\* The cells of the response table as uploaded.
UploadedCells ==
    {given[1].rows[r][k] : r \in DOMAIN given[1].rows, k \in DOMAIN given[1].cols}

\* C9 as stated: the cleansing after the reshape cleanses Value with the
\* key fields and Name, so the long form before the metadata join and
\* every Stage-A row carry a cleansed Value.
C9_AsStated ==
    /\ pc \in {"L85", "L88"} =>
          \A l \in DOMAIN heap[long_df].rows :
             IsCleansedCell(heap[long_df].rows[l][Idx(heap[long_df], ValueCol)])
    /\ pc \in AfterStageA =>
          \A i \in DOMAIN stage_a.rows :
             IsCleansedCell(stage_a.rows[i][Idx(stage_a, ValueCol)])

\* C9 amended: the cleansing after the reshape cleanses Respondent, Panel
\* and Name only; Value goes through Stage A as uploaded and is cleansed
\* between Stage A and Stage B, so every final row carries a cleansed
\* Value.
C9_ValueCleansedAfterStageA ==
    /\ pc \in {"L85", "L88"} \cup AfterStageA =>
          LET L == heap[long_df]
          IN  \A l \in DOMAIN L.rows :
                 /\ \A c \in {Respondent, Panel, NameCol} \cap Range(L.cols) :
                       IsCleansedCell(L.rows[l][Idx(L, c)])
                 /\ L.rows[l][Idx(L, ValueCol)] \in UploadedCells
    /\ pc \in AfterStageA =>
          \A i \in DOMAIN stage_a.rows :
             stage_a.rows[i][Idx(stage_a, ValueCol)] \in UploadedCells
    /\ pc = "done" =>
          \A j \in DOMAIN heap[out].rows :
             /\ IsCleansedCell(heap[out].rows[j][Idx(heap[out], ValueCol)])
             /\ ~Missing(heap[out].rows[j][Idx(heap[out], ValueCol)])

\* The scenario of the claim: respondent "r1 " answered " yes " to q1.
\* The Stage-A row is {R1, Q1, " yes "} and the final row {R1, Q1, "YES"}.
C9_Witness ==
    /\ pc = "done"
    /\ HasCol(stage_a, Respondent)
    /\ \E i \in DOMAIN stage_a.rows :
          /\ stage_a.rows[i][Idx(stage_a, Respondent)] = Str(<<"R","1">>)
          /\ stage_a.rows[i][Idx(stage_a, NameCol)] = Str(<<"Q","1">>)
          /\ stage_a.rows[i][Idx(stage_a, ValueCol)] = Str(<<" ","y","e","s"," ">>)
    /\ \E j \in DOMAIN heap[out].rows :
          /\ heap[out].rows[j][Idx(heap[out], Respondent)] = Str(<<"R","1">>)
          /\ heap[out].rows[j][Idx(heap[out], NameCol)] = Str(<<"Q","1">>)
          /\ heap[out].rows[j][Idx(heap[out], ValueCol)] = Str(<<"Y","E","S">>)

====
